---- MODULE Spec2Model ----
(***************************************************************************)
(* A state-machine model of bpnet-lite: bpnetlite/attributions.py          *)
(* (dinucleotide_shuffle) and bpnetlite/io.py (one_hot_encode,             *)
(* extract_peaks, DataGenerator, PeakGenerator).                           *)
(*                                                                         *)
(* numpy arrays and torch tensors are 0-indexed functions; a 2-D array is  *)
(* a record [shape, v] with v a function on (0..rows-1) \X (0..cols-1).    *)
(* A Python exception ends the call with a record whose exc field names    *)
(* the exception.                                                          *)
(***************************************************************************)
EXTENDS Integers, Sequences, FiniteSets, TLC

\* ------------------------------------------------------------- bounds
K == 3              \* rows of the one-hot alphabet axis fed to the shuffler
MaxLen == 5         \* longest sequence fed to the shuffler
MaxShuffles == 2    \* largest n_shuffles
MaxSeed == 1        \* integer seeds are 0..MaxSeed
MaxCalls == 2       \* invocations of dinucleotide_shuffle in one behaviour
MaxEncLen == 3      \* longest sequence fed to one_hot_encode
MaxPeaks == 2       \* longest peak list
MaxWindow == 4      \* largest in_window and out_window
MaxJitter == 1      \* largest max_jitter
ChromLen == 2000    \* length of every chromosome of the genome read
MaxWorkers == 2     \* largest num_workers
MaxExamples == 2    \* longest batch X given to calculate_attributions
MaxGets == 2        \* __getitem__ calls in one behaviour

\* ------------------------------------------------------------- arrays
ALen(a) == Cardinality(DOMAIN a)

Zeros2(r, c) == [shape |-> <<r, c>>, v |-> [p \in (0..r-1) \X (0..c-1) |-> 0]]

Set2(M, r, c, x) == [M EXCEPT !.v[<<r, c>>] = x]

\* The elements of a finite set of integers as a 0-indexed increasing array.
SortedArr(S) ==
  [t \in 0..Cardinality(S)-1 |-> CHOOSE x \in S : Cardinality({y \in S : y < x}) = t]

\* tensor.argmax(axis=0): per column, the first row holding the column's maximum.
Argmax0(M) ==
  [c \in 0..M.shape[2]-1 |->
     CHOOSE r \in 0..M.shape[1]-1 :
        /\ \A q \in 0..M.shape[1]-1 : M.v[<<q, c>>] <= M.v[<<r, c>>]
        /\ \A q \in 0..r-1 : M.v[<<q, c>>] < M.v[<<r, c>>]]

\* torch.unique(a, return_inverse=True): the sorted distinct values, and for
\* every position the index of its value among them.
UniqueChars(a) == SortedArr({a[c] : c \in DOMAIN a})

UniqueInverse(a) ==
  [c \in DOMAIN a |-> Cardinality({y \in {a[d] : d \in DOMAIN a} : y < a[c]})]

\* numpy.where(idxs[:-1] == char)[0] + 1
WherePlusOne(ix, char) ==
  SortedArr({p + 1 : p \in {q \in 0..ALen(ix)-2 : ix[q] = char}})

\* The list next_idxs of lines 101-104: one entry per element of chars, in the
\* order of chars, each entry selected by comparing idxs with the element itself.
BuildNextIdxs(ch, ix) == [t \in 0..ALen(ch)-1 |-> WherePlusOne(ix, ch[t])]

\* ------------------------------------------------------------- the generator
(* numpy.random.RandomState is a deterministic generator: what it returns is   *)
(* a fixed function of the seed it was built from and of how many numbers it   *)
(* has produced.  The function (the Mersenne Twister) is left unknown: mt      *)
(* remembers the value it gave at <<seed, pos, bound>> the first time that     *)
(* value is drawn, and every later draw at the same place gets the same value. *)
(* A generator seeded from the operating system's entropy (a seed of None) is  *)
(* a generator built from some seed.                                           *)
Seeds == 0..MaxSeed

\* numpy.random.RandomState(seed)
RandomState(seed) == [seed |-> seed, pos |-> 0]

\* RandomState.permutation(n) shuffles numpy.arange(n): shuffle() walks
\* i = n-1, ..., 1 and draws j in 0..i for each.  The bounds i, in drawing order.
NumDraws(n) == IF n >= 2 THEN n - 1 ELSE 0

PermutationBounds(n) == [q \in 1..NumDraws(n) |-> n - q]

Swap(a, x, y) == [a EXCEPT ![x] = a[y], ![y] = a[x]]

\* shuffle() from index i down, the draws taken from d after the first q of it.
RECURSIVE ShuffleFrom(_, _, _, _)
ShuffleFrom(a, i, d, q) ==
  IF i < 1 THEN a ELSE ShuffleFrom(Swap(a, i, d[q + 1]), i - 1, d, q + 1)

\* RandomState.permutation(n), its draws being d[q+1], d[q+2], ...
Permutation(n, d, q) == ShuffleFrom([t \in 0..n-1 |-> t], n - 1, d, q)

\* The place of a generator's k-th next draw, below the bound b.
DrawKey(rs, k, b) == <<rs.seed, rs.pos + k - 1, b>>

\* The draws come from numpy's global generator, not from rs: any values.
AgreeWithGlobalGenerator(m, rs, bs, d) == TRUE

\* The draws d (with bounds bs) agree with what the generator rs gave before.
AgreeWithGenerator(m, rs, bs, d) ==
  \A k \in 1..Len(bs) :
     DrawKey(rs, k, bs[k]) \in DOMAIN m => m[DrawKey(rs, k, bs[k])] = d[k]

\* The draws a generator can give for the first n of the bounds bs: each is
\* within its bound, and is what the generator gave before at that place.
RECURSIVE DrawsUpTo(_, _, _, _)
DrawsUpTo(m, rs, bs, n) ==
  IF n = 0 THEN {<<>>}
  ELSE LET at == [rs EXCEPT !.pos = rs.pos + n - 1]
       IN {Append(d, x) : d \in DrawsUpTo(m, rs, bs, n - 1),
                          x \in {y \in 0..bs[n] :
                                   AgreeWithGenerator(m, at, <<bs[n]>>, <<y>>)}}

\* The draws a generator can give for the bounds bs.
GeneratorDraws(m, rs, bs) == DrawsUpTo(m, rs, bs, Len(bs))

\* mt once the draws d have been given.
Remember(m, rs, bs, d) ==
  [key \in DOMAIN m \cup {DrawKey(rs, k, bs[k]) : k \in 1..Len(bs)} |->
     IF key \in DOMAIN m THEN m[key]
     ELSE d[CHOOSE k \in 1..Len(bs) : DrawKey(rs, k, bs[k]) = key]]

\* ------------------------------------------------------------- state
VARIABLE mt            \* the values the generators have given so far

VARIABLES
  \* dinucleotide_shuffle (attributions.py)
  sequence,            \* the argument: a one-hot tensor of shape (K, length)
  n_shuffles,          \* the argument
  seed,                \* the argument random_state, an integer
  random_state,        \* the generator built at line 96
  chars, idxs,         \* line 98
  next_idxs,           \* lines 101-104, permuted in place at line 112
  shuffled_sequences,  \* line 106
  counters,            \* line 114, as the last trial left them
  i,                   \* the loop at line 108
  pc,                  \* where the running call is
  returned             \* what every finished call returned or raised

shVars == <<sequence, n_shuffles, seed, random_state, chars, idxs,
            next_idxs, shuffled_sequences, counters, i, pc, returned>>

\* one_hot_encode (io.py)
VARIABLES
  enc_sequence,        \* the argument sequence, a list of characters
  enc_alphabet,        \* the argument alphabet, a list or None
  enc_result           \* what the call returned or raised; NotCalled before it

encVars == <<enc_sequence, enc_alphabet, enc_result>>

\* extract_peaks (io.py)
VARIABLES
  peaks,               \* the argument: the list of (chrom, start, end)
  chroms,              \* the argument: a list of chromosomes, or None
  in_window, out_window, max_jitter,
  src_kind,            \* "dict": arrays in memory; "file": pyfaidx and pyBigWig readers
  signals,             \* the argument: the list of signal tracks
  controls,            \* the argument: the list of control tracks, or None
  extracted            \* what extract_peaks returned or raised; NotCalled before it

cfgVars == <<peaks, chroms, in_window, out_window, max_jitter, src_kind,
             signals, controls>>

ioVars == <<cfgVars, extracted>>

VARIABLES
  \* PeakGenerator and DataGenerator (io.py); the arguments peaks .. controls
  \* are those of extract_peaks
  reverse_complement,  \* the argument
  num_workers,         \* the argument
  gen_seed,            \* the argument random_state, an integer
  dataset,             \* the DataGenerator built: its windows and its tensors
  workers,             \* per DataLoader worker, the generator it draws from
  fetched,             \* per worker, what its __getitem__ calls returned or raised
  gen_pc

genVars == <<reverse_complement, num_workers, gen_seed, dataset, workers,
             fetched, gen_pc>>

\* calculate_attributions (attributions.py)
VARIABLES
  model_output,        \* the argument
  at_X,                   \* the argument: the one-hot sequences, one per example
  at_n_shuffles,       \* the argument n_shuffles
  at_seed,             \* the argument random_state, an integer
  wrapper,             \* lines 168-171: the wrapper built, None before
  ig,                  \* line 175: the DeepLiftShap built around it, None before
  ex,                  \* the loop at line 179
  shuffled,            \* how many times dinucleotide_shuffle was invoked (line 181)
  attributions,        \* line 177, appended to at line 191
  at_pc,
  at_result            \* what the call returned or raised; NotCalled before it

attrVars == <<model_output, at_X, at_n_shuffles, at_seed, wrapper, ig, ex, shuffled,
              attributions, at_pc, at_result>>

vars == <<mt, shVars, encVars, ioVars, genVars, attrVars>>

\* ------------------------------------------------------------- inputs
\* The symbols of a sequence, one per position: the row of the column's 1.
SymbolSeqs == UNION {[0..L-1 -> 0..K-1] : L \in 0..MaxLen}

OneHot(s) ==
  [shape |-> <<K, ALen(s)>>,
   v |-> [p \in (0..K-1) \X (0..ALen(s)-1) |-> IF s[p[2]] = p[1] THEN 1 ELSE 0]]

\* ------------------------------------------------------------- dinucleotide_shuffle
ShuffleInit ==
  /\ sequence \in {OneHot(s) : s \in SymbolSeqs}
  /\ n_shuffles \in 1..MaxShuffles
  /\ seed \in Seeds
  /\ random_state = RandomState(seed)
  /\ chars = <<>>
  /\ idxs = <<>>
  /\ next_idxs = <<>>
  /\ shuffled_sequences = <<>>
  /\ counters = <<>>
  /\ i = 0
  /\ pc = "idle"
  /\ returned = <<>>

\* Lines 95-106: build the generator, decode the sequence, build the successor
\* lists and the zero output tensor.
Call ==
  /\ pc = "idle"
  /\ Len(returned) < MaxCalls
  /\ random_state' = RandomState(seed)
  /\ chars' = UniqueChars(Argmax0(sequence))
  /\ idxs' = UniqueInverse(Argmax0(sequence))
  /\ next_idxs' = BuildNextIdxs(chars', idxs')
  /\ shuffled_sequences' =
       [t \in 0..n_shuffles-1 |-> Zeros2(sequence.shape[1], sequence.shape[2])]
  /\ i' = 0
  /\ pc' = "loop"
  /\ UNCHANGED <<sequence, n_shuffles, seed, counters, returned>>
  /\ UNCHANGED <<mt, encVars, ioVars, genVars, attrVars>>

\* The whole entry is permuted: its last element comes first.
LastFirst(m, p) == [t \in 0..m-1 |-> IF t = 0 THEN m - 1 ELSE p[t - 1]]

\* Lines 110-111 for an entry m long and a permutation p of 0..m-2: the index
\* array arange(m) with all but its last element overwritten by p.
KeepLast(m, p) == [t \in 0..m-1 |-> IF t < m - 1 THEN p[t] ELSE t]

\* a[ia], numpy's indexing of an array by an index array
Take(a, ia) == [t \in DOMAIN ia |-> a[ia[t]]]

\* The entry of next_idxs that the loop at line 109 reads and writes for the
\* element char of chars.
EntryOf(char) == char

\* Lines 109-112 from the element cp of chars on: the bounds of the draws made,
\* in order.  The loop stops where the list has no entry for the element.
RECURSIVE PermuteBounds(_, _, _)
PermuteBounds(nx, ch, cp) ==
  IF cp >= ALen(ch) \/ EntryOf(ch[cp]) >= ALen(nx) THEN <<>>
  ELSE PermutationBounds(ALen(nx[EntryOf(ch[cp])]) - 1) \o PermuteBounds(nx, ch, cp + 1)

\* Lines 109-112 from the element cp of chars on, the first q draws of d used:
\* every entry selected has all but its last element permuted.
RECURSIVE PermuteFrom(_, _, _, _, _)
PermuteFrom(nx, ch, cp, d, q) ==
  IF cp >= ALen(ch) THEN [exc |-> "none", next_idxs |-> nx]
  ELSE IF EntryOf(ch[cp]) >= ALen(nx) THEN [exc |-> "IndexError", next_idxs |-> nx]
  ELSE LET e == EntryOf(ch[cp])
           m == ALen(nx[e])
       IN PermuteFrom([nx EXCEPT ![e] = Take(@, KeepLast(m, Permutation(m - 1, d, q)))],
                      ch, cp + 1, d, q + NumDraws(m - 1))

\* Lines 118-123 from position jj on: follow the next unused successor of the
\* current symbol and count it used.
RECURSIVE TraverseFrom(_, _, _, _, _, _)
TraverseFrom(nx, ix, M, ctr, ix0, jj) ==
  IF jj >= ALen(ix) THEN [exc |-> "none", out |-> M, counters |-> ctr]
  ELSE LET char == ix[ix0] IN
       IF ctr[char] >= ALen(nx[char])
       THEN [exc |-> "IndexError", out |-> M, counters |-> ctr]
       ELSE LET nxt == nx[char][ctr[char]] IN
            TraverseFrom(nx, ix, Set2(M, ix[nxt], jj, 1),
                         [ctr EXCEPT ![char] = @ + 1], nxt, jj + 1)

\* Lines 114-123: the greedy traversal of one trial, written into M.
Traverse(nx, ch, ix, M) ==
  IF ALen(ix) = 0 THEN [exc |-> "IndexError", out |-> M, counters |-> <<>>]
  ELSE TraverseFrom(nx, ix, Set2(M, ix[0], 0, 1), [t \in 0..ALen(ch)-1 |-> 0], 0, 1)

\* An exception leaves the call: nothing is returned.
Raise(e) ==
  /\ pc' = "idle"
  /\ returned' = Append(returned, [exc |-> e, val |-> <<>>])

\* Lines 108-123, one trial: permute the entries of next_idxs in place, as the
\* last trial left them, then traverse.
Trial ==
  /\ pc = "loop"
  /\ i < n_shuffles
  /\ LET bs == PermuteBounds(next_idxs, chars, 0) IN
     \E d \in GeneratorDraws(mt, random_state, bs) :
       LET p == PermuteFrom(next_idxs, chars, 0, d, 0)
           t == Traverse(p.next_idxs, chars, idxs, shuffled_sequences[i])
       IN /\ mt' = Remember(mt, random_state, bs, d)
          /\ random_state' = [random_state EXCEPT !.pos = @ + Len(bs)]
          /\ next_idxs' = p.next_idxs
          /\ IF p.exc # "none"
             THEN /\ Raise(p.exc)
                  /\ UNCHANGED <<shuffled_sequences, counters, i>>
             ELSE IF t.exc # "none"
             THEN /\ Raise(t.exc)
                  /\ counters' = t.counters
                  /\ UNCHANGED <<shuffled_sequences, i>>
             ELSE /\ shuffled_sequences' = [shuffled_sequences EXCEPT ![i] = t.out]
                  /\ counters' = t.counters
                  /\ i' = i + 1
                  /\ UNCHANGED <<pc, returned>>
  /\ UNCHANGED <<sequence, n_shuffles, seed, chars, idxs>>
  /\ UNCHANGED <<encVars, ioVars, genVars, attrVars>>

\* Line 125
Return ==
  /\ pc = "loop"
  /\ i >= n_shuffles
  /\ pc' = "idle"
  /\ returned' = Append(returned, [exc |-> "none", val |-> shuffled_sequences])
  /\ UNCHANGED <<sequence, n_shuffles, seed, random_state, chars, idxs,
                 next_idxs, shuffled_sequences, counters, i>>
  /\ UNCHANGED <<mt, encVars, ioVars, genVars, attrVars>>

\* ------------------------------------------------------------- shuffle properties
Decoded == Argmax0(sequence)

SeqLen == sequence.shape[2]

\* How often the pair <<x, y>> occurs at consecutive positions of a.
PairCount(a, x, y) ==
  Cardinality({p \in 0..ALen(a)-2 : a[p] = x /\ a[p+1] = y})

SamePairs(a, b) ==
  \A x \in 0..K-1 : \A y \in 0..K-1 : PairCount(a, x, y) = PairCount(b, x, y)

\* The trial t of a returned tensor keeps the ends, the pairs and the length.
TrialPreserves(val, t) ==
  /\ val[t].shape = sequence.shape
  /\ Argmax0(val[t])[0] = Decoded[0]
  /\ Argmax0(val[t])[SeqLen-1] = Decoded[SeqLen-1]
  /\ SamePairs(Argmax0(val[t]), Decoded)

\* C1: every call on a one-hot sequence of length >= 2, whatever symbols occur
\* in it, completes, and each of its n_shuffles outputs has the first and last
\* symbol, the multiset of consecutive symbol pairs and the length of the input.
C1_ShufflePreservesDinucleotides ==
  \A r \in 1..Len(returned) :
     SeqLen >= 2 =>
        /\ returned[r].exc = "none"
        /\ ALen(returned[r].val) = n_shuffles
        /\ \A t \in 0..n_shuffles-1 : TrialPreserves(returned[r].val, t)

\* The symbols that occur are the rows 0..m-1 for some m.
OccurringIsPrefix ==
  {Decoded[c] : c \in 0..SeqLen-1} = 0..Cardinality({Decoded[c] : c \in 0..SeqLen-1})-1

\* The sequence is degenerate: fewer than 2 positions, or one symbol only.
Degenerate == SeqLen < 2 \/ Cardinality({Decoded[c] : c \in 0..SeqLen-1}) = 1

\* C2: on a degenerate input the call does not fail and returns n_shuffles
\* outputs, each equal to the input one-hot matrix.
C2_DegenerateReturnsCopies ==
  \A r \in 1..Len(returned) :
     Degenerate =>
        /\ returned[r].exc = "none"
        /\ ALen(returned[r].val) = n_shuffles
        /\ \A t \in 0..n_shuffles-1 : returned[r].val[t] = sequence

\* C3: two finished calls given the same integer random_state (on the same
\* sequence, with the same n_shuffles) returned the same thing.
C3_SameSeedSameOutput ==
  \A r \in 1..Len(returned) : \A q \in 1..Len(returned) :
     returned[r] = returned[q]

\* Two calls with one integer seed have returned a tensor in which some trial
\* differs from the input: the permutations were drawn, twice, and agreed.
C3_Witness ==
  /\ Len(returned) = 2
  /\ returned[1].exc = "none"
  /\ \E t \in 0..n_shuffles-1 : returned[1].val[t] # sequence


\* The array a holds the elements of b, each as often, in some order.
IsPermutationOf(a, b) ==
  /\ DOMAIN a = DOMAIN b
  /\ \A t \in DOMAIN b :
       Cardinality({u \in DOMAIN a : a[u] = b[t]}) =
       Cardinality({u \in DOMAIN b : b[u] = b[t]})

SameLast(a, b) == ALen(b) >= 1 => a[ALen(b) - 1] = b[ALen(b) - 1]

\* Whatever the number of trials made, every entry of next_idxs is a permutation
\* of the entry built from the input at lines 101-104, its last element in place.
ListsArePermutations ==
  /\ DOMAIN next_idxs = DOMAIN BuildNextIdxs(chars, idxs)
  /\ \A e \in DOMAIN next_idxs :
       /\ IsPermutationOf(next_idxs[e], BuildNextIdxs(chars, idxs)[e])
       /\ SameLast(next_idxs[e], BuildNextIdxs(chars, idxs)[e])

\* A trial is about to run, and its loop at lines 109-112 finds an entry of
\* next_idxs for every element of chars.
TrialPermutes ==
  /\ pc = "loop" /\ i < n_shuffles
  /\ \A cp \in DOMAIN chars : EntryOf(chars[cp]) < ALen(next_idxs)

\* The values the generator gave for the draws of the trial about to run.
DrawsOfTrial ==
  [k \in 1..Len(PermuteBounds(next_idxs, chars, 0)) |->
     mt'[DrawKey(random_state, k, PermuteBounds(next_idxs, chars, 0)[k])]]

RECURSIVE SumTo(_, _)
SumTo(ctr, n) == IF n <= 0 THEN 0 ELSE ctr[n - 1] + SumTo(ctr, n - 1)

\* A trial permutes the lists as the trial before left them, and its traversal
\* of a sequence that has a first position emits every position: no counter has
\* passed the length of its list, and together they count every step taken.
TrialCarriesAndCompletes ==
  TrialPermutes =>
     /\ next_idxs' = PermuteFrom(next_idxs, chars, 0, DrawsOfTrial, 0).next_idxs
     /\ ALen(idxs) >= 1 =>
          /\ pc' = "loop" /\ i' = i + 1 /\ returned' = returned
          /\ \A c \in DOMAIN counters' : counters'[c] <= ALen(next_idxs'[c])
          /\ SumTo(counters', ALen(counters')) = ALen(idxs) - 1
          /\ \A c \in 0..ALen(idxs)-1 :
               \E r \in 0..K-1 : shuffled_sequences'[i].v[<<r, c>>] = 1

\* C12: the successor lists are permuted in place and carried from trial to
\* trial without being reset; after any number of trials each list is still a
\* permutation of the list built from the input with its last entry in last
\* position, and in every trial the traversal finds an unused successor for the
\* current symbol until the full length is emitted.
C12_ListsCarriedTraversalCompletes ==
  []ListsArePermutations /\ [][TrialCarriesAndCompletes]_vars

\* Two trials are done, the second run on lists the first had permuted, and the
\* lists are no longer in the order they were built in.
C12_Witness ==
  /\ pc = "loop" /\ i = 2
  /\ next_idxs # BuildNextIdxs(chars, idxs)
  /\ shuffled_sequences[0] # sequence
  /\ shuffled_sequences[1] # sequence

\* ------------------------------------------------------------- one_hot_encode (io.py)
\* Python's None, where a list is expected.
None == <<"None">>

NotCalled == [exc |-> "not called", val |-> <<>>]

\* The order numpy.unique sorts characters in: their code points.
CodePoint(c) ==
  CASE c = "A" -> 65 [] c = "C" -> 67 [] c = "G" -> 71 [] c = "N" -> 78
    [] c = "R" -> 82 [] c = "T" -> 84 [] c = "a" -> 97 [] c = "c" -> 99
    [] c = "g" -> 103 [] c = "n" -> 110 [] c = "r" -> 114 [] c = "t" -> 116

\* numpy.unique(sequence): the distinct elements, sorted.
NumpyUnique(sq) ==
  LET S == {sq[k] : k \in 1..Len(sq)} IN
  [t \in 1..Cardinality(S) |->
     CHOOSE x \in S : Cardinality({y \in S : CodePoint(y) < CodePoint(x)}) = t - 1]

\* Line 68: alphabet or numpy.unique(sequence)
AlphabetOr(alphabet, sq) ==
  IF alphabet = None \/ alphabet = <<>> THEN NumpyUnique(sq) ELSE alphabet

\* Line 69
WithoutIgnore(alphabet, ignore) == SelectSeq(alphabet, LAMBDA c : c # ignore)

\* Line 70: the dictionary keeps, for a character listed twice, its last index.
AlphabetLookup(alphabet, c) ==
  CHOOSE t \in 0..Len(alphabet)-1 :
     /\ alphabet[t + 1] = c
     /\ \A u \in t+1..Len(alphabet)-1 : alphabet[u + 1] # c

\* Lines 63-78.  The array built at line 72 has one row per position of the
\* sequence and one column per character of the alphabet, and is returned as is.
one_hot_encode(sq, ignore, alphabet) ==
  LET al == WithoutIgnore(AlphabetOr(alphabet, sq), ignore)
      known == {al[t] : t \in 1..Len(al)}
  IN IF \E k \in 1..Len(sq) : sq[k] # ignore /\ sq[k] \notin known
     THEN [exc |-> "KeyError", val |-> <<>>]
     ELSE [exc |-> "none",
           val |-> [shape |-> <<Len(sq), Len(al)>>,
                    v |-> [p \in (0..Len(sq)-1) \X (0..Len(al)-1) |->
                             IF sq[p[1] + 1] # ignore /\ AlphabetLookup(al, sq[p[1] + 1]) = p[2]
                             THEN 1 ELSE 0]]]

\* The characters and alphabets one_hot_encode is applied to.
EncChars == {"A", "C", "G", "T", "N", "R"}

EncSequences == UNION {[1..L -> EncChars] : L \in 0..MaxEncLen}

EncAlphabets == {None, <<"A", "C", "G", "T">>, <<"A", "C", "G", "T", "N">>}

EncodeInit ==
  /\ enc_sequence \in EncSequences
  /\ enc_alphabet \in EncAlphabets
  /\ enc_result = NotCalled

\* one_hot_encode(sequence, alphabet=alphabet), ignore left at its default 'N'
Encode ==
  /\ enc_result = NotCalled
  /\ enc_result' = one_hot_encode(enc_sequence, "N", enc_alphabet)
  /\ UNCHANGED <<enc_sequence, enc_alphabet>>
  /\ UNCHANGED <<mt, shVars, ioVars, genVars, attrVars>>

\* ------------------------------------------------------------- one_hot_encode properties
\* The alphabet the call encodes over: the one given or found, less the ignore
\* symbol.
EncAlphabetSize == Len(WithoutIgnore(AlphabetOr(enc_alphabet, enc_sequence), "N"))

\* C4: one_hot_encode returns a matrix of shape (alphabet_size, length) in which
\* every column, one per input position, has at most one 1 and 0 elsewhere, and
\* the column of every position holding the ignore symbol is all-zero.
C4_OneHotShapeAndColumns ==
  enc_result.exc = "none" =>
     LET M == enc_result.val IN
     /\ M.shape = <<EncAlphabetSize, Len(enc_sequence)>>
     /\ \A c \in 0..Len(enc_sequence)-1 :
          /\ \A r \in 0..EncAlphabetSize-1 : M.v[<<r, c>>] \in {0, 1}
          /\ Cardinality({r \in 0..EncAlphabetSize-1 : M.v[<<r, c>>] = 1}) <= 1
          /\ enc_sequence[c + 1] = "N" =>
               \A r \in 0..EncAlphabetSize-1 : M.v[<<r, c>>] = 0

\* ------------------------------------------------------------- extract_peaks (io.py)
\* ---- the genome the sources hold
Chromosomes == {"chr1", "chr2"}

\* The text of a chromosome: lower-case (soft-masked) letters, N, and in chr1 one
\* IUPAC code R.
GenomePattern == <<"A", "c", "G", "N", "t", "T", "n", "C">>

IupacAt == 1016

GenomeChar(chrom, p) ==
  IF chrom = "chr1" /\ p = IupacAt THEN "R"
  ELSE GenomePattern[((p + (IF chrom = "chr1" THEN 0 ELSE 3)) % Len(GenomePattern)) + 1]

\* The text is encoded as read, not upper-cased.
NoUpper(c) == c

\* str.upper()
Upper(c) ==
  CASE c = "a" -> "A" [] c = "c" -> "C" [] c = "g" -> "G" [] c = "t" -> "T"
    [] c = "n" -> "N" [] c = "r" -> "R" [] OTHER -> c

Nucleotides == <<"A", "C", "G", "T">>

\* A sequences dictionary: per chromosome an array of shape (length, 4), one-hot
\* per position, all-zero where the text holds no nucleotide.
EncodedAt(chrom, p, col) ==
  IF Upper(GenomeChar(chrom, p)) = Nucleotides[col + 1] THEN 1 ELSE 0

\* A value no track holds, for the NaN a bigwig reader gives where it has no data.
NaN == -1

TrackBase(track) ==
  CASE track = "sig0" -> 10000 [] track = "sig1" -> 20000 [] track = "ctl0" -> 50000

\* The value of a track at a position: it names the track and the position (chr2
\* is told apart by its sign), and a bigwig has no data at every fifth position.
TrackAt(kind, track, chrom, p) ==
  IF kind = "file" /\ p % 5 = 0 THEN NaN
  ELSE (IF chrom = "chr1" THEN 1 ELSE -1) * (TrackBase(track) + p)

\* numpy.nan_to_num
NanToNum(x) == IF x = NaN THEN 0 ELSE x

\* ---- Python slicing
\* The positions a[start:end] reads of a sequence n long, as a 0-indexed array.
ClampIndex(n, x) == IF x < 0 THEN (IF x + n < 0 THEN 0 ELSE x + n) ELSE (IF x > n THEN n ELSE x)

PySlice(n, start, end) ==
  [t \in 0..(ClampIndex(n, end) - ClampIndex(n, start) - 1) |-> ClampIndex(n, start) + t]

\* M.T
Transpose(M) ==
  [shape |-> <<M.shape[2], M.shape[1]>>,
   v |-> [p \in (0..M.shape[2]-1) \X (0..M.shape[1]-1) |-> M.v[<<p[2], p[1]>>]]]

\* ---- one peak (lines 278-316)
\* Line 278
Mid(peak) == peak.start + (peak.end - peak.start) \div 2

\* The signal window one position to the right.
SignalWindowShifted(peak, outw, mj) ==
  <<peak.start + (peak.end - peak.start) \div 2 - outw \div 2 - mj + 1,
    peak.start + (peak.end - peak.start) \div 2 + outw \div 2 + mj + 1>>

\* Lines 247, 279-280: the window read from every signal track
SignalWindow(peak, outw, mj) ==
  <<Mid(peak) - outw \div 2 - mj, Mid(peak) + outw \div 2 + mj>>

\* Lines 247, 294-295: the window read from every control track and from the
\* sequence
InputWindow(peak, inw, mj) ==
  <<Mid(peak) - inw \div 2 - mj, Mid(peak) + inw \div 2 + mj>>

\* Lines 285-289, 301-305: signal[chrom][start:end], or
\* nan_to_num(signal.values(chrom, start, end))
ReadTrack(kind, track, chrom, w) ==
  LET ps == PySlice(ChromLen, w[1], w[2]) IN
  [t \in DOMAIN ps |-> IF kind = "dict" THEN TrackAt(kind, track, chrom, ps[t])
                       ELSE NanToNum(TrackAt(kind, track, chrom, ps[t]))]

\* The windows of the tracks of one peak, as numpy.array stacks them at lines
\* 319 and 322: shape (tracks, width).
ReadTracks(kind, tracks, chrom, w) ==
  LET width == ALen(PySlice(ChromLen, w[1], w[2])) IN
  [shape |-> <<Len(tracks), width>>,
   v |-> [p \in (0..Len(tracks)-1) \X (0..width-1) |->
            ReadTrack(kind, tracks[p[1] + 1], chrom, w)[p[2]]]]

\* sequences[chrom][start:end].seq.upper(), a list of characters
ReadText(chrom, w) ==
  LET ps == PySlice(ChromLen, w[1], w[2]) IN
  [k \in 1..ALen(ps) |-> Upper(GenomeChar(chrom, ps[k - 1]))]

\* Lines 310-314: the sequence of the window, transposed to (4, width)
ReadSequence(kind, chrom, w) ==
  IF kind = "dict"
  THEN LET ps == PySlice(ChromLen, w[1], w[2]) IN
       [exc |-> "none",
        val |-> Transpose([shape |-> <<ALen(ps), Len(Nucleotides)>>,
                           v |-> [p \in (0..ALen(ps)-1) \X (0..Len(Nucleotides)-1) |->
                                    EncodedAt(chrom, ps[p[1]], p[2])]])]
  ELSE LET e == one_hot_encode(ReadText(chrom, w), "N", <<"A", "C", "G", "T", "N">>) IN
       IF e.exc # "none" THEN e ELSE [exc |-> "none", val |-> Transpose(e.val)]

\* The filter keeps the peaks of the chromosomes NOT listed.
FilterPeaksInverted(pk, ch) ==
  IF ch = None THEN pk
  ELSE SelectSeq(pk, LAMBDA q : q.chrom \notin {ch[k] : k \in 1..Len(ch)})

\* Lines 262-263: peaks[numpy.isin(peaks['chrom'], chroms)]
FilterPeaks(pk, ch) ==
  IF ch = None THEN pk
  ELSE SelectSeq(pk, LAMBDA q : q.chrom \in {ch[k] : k \in 1..Len(ch)})

\* Lines 277-316 from the k-th retained peak on, the lists seqs, signals_ and
\* controls_ (and the windows read) as built so far.
RECURSIVE ExtractFrom(_, _, _, _, _, _, _, _, _)
ExtractFrom(pk, k, kind, sg, ct, inw, outw, mj, acc) ==
  IF k > Len(pk) THEN acc
  ELSE LET sw == SignalWindow(pk[k], outw, mj)
           iw == InputWindow(pk[k], inw, mj)
           sq == ReadSequence(kind, pk[k].chrom, iw)
           sigs == ReadTracks(kind, sg, pk[k].chrom, sw)
           ctls == IF ct = None THEN <<>> ELSE ReadTracks(kind, ct, pk[k].chrom, iw)
       IN IF sq.exc # "none"
          THEN [acc EXCEPT !.exc = sq.exc]
          ELSE ExtractFrom(pk, k + 1, kind, sg, ct, inw, outw, mj,
                 [exc |-> "none",
                  seqs |-> Append(acc.seqs, sq.val),
                  signals |-> Append(acc.signals, sigs),
                  controls |-> IF ct = None THEN <<>> ELSE Append(acc.controls, ctls),
                  reads |-> Append(acc.reads,
                     [mid |-> Mid(pk[k]), signal |-> sw, input |-> iw])])

\* extract_peaks: the tuple returned at lines 318-325 (controls left out of it
\* when None was given), with the windows each peak was read from.
extract_peaks(pk, kind, sg, ct, ch, inw, outw, mj) ==
  LET r == ExtractFrom(FilterPeaks(pk, ch), 1, kind, sg, ct, inw, outw, mj,
             [exc |-> "none", seqs |-> <<>>, signals |-> <<>>, controls |-> <<>>,
              reads |-> <<>>])
  IN [exc |-> r.exc, has_controls |-> ct # None,
      val |-> IF r.exc = "none" THEN [seqs |-> r.seqs, signals |-> r.signals,
                                      controls |-> r.controls, reads |-> r.reads]
              ELSE <<>>]

\* ---- inputs
Peak(c, a, b) == [chrom |-> c, start |-> a, end |-> b]

PeakChoices == {Peak("chr1", 1000, 1000), Peak("chr1", 1010, 1020),
                Peak("chr2", 1000, 1000), Peak("chr2", 1000, 1003)}

PeakLists == UNION {[1..n -> PeakChoices] : n \in 0..MaxPeaks}

ChromFilters == {None, <<"chr1">>, <<"chr2">>}

ExtractInit ==
  /\ peaks \in PeakLists
  /\ chroms \in ChromFilters
  /\ in_window \in 1..MaxWindow
  /\ out_window \in 1..MaxWindow
  /\ max_jitter \in 0..MaxJitter
  /\ src_kind \in {"dict", "file"}
  /\ signals = <<"sig0", "sig1">>
  /\ controls \in {None, <<"ctl0">>}
  /\ extracted = NotCalled

\* extract_peaks(peaks, sequences, signals, controls, chroms, in_window,
\* out_window, max_jitter)
ExtractPeaksCall ==
  /\ extracted = NotCalled
  /\ extracted' = extract_peaks(peaks, src_kind, signals, controls, chroms,
                                in_window, out_window, max_jitter)
  /\ UNCHANGED cfgVars
  /\ UNCHANGED <<mt, shVars, encVars, genVars, attrVars>>

\* ------------------------------------------------------------- DataGenerator, PeakGenerator
NoDataset == [sequences |-> <<>>, signals |-> <<>>, controls |-> <<>>,
              has_controls |-> FALSE]

\* The processes that call __getitem__ on the DataLoader's dataset: the main
\* process when num_workers is 0, else the worker processes.
WorkerIds(nw) == IF nw = 0 THEN {0} ELSE 1..nw

\* Lines 401-416: extract the windows, build the DataGenerator over them (its
\* generator at line 135) and wrap it in a DataLoader.  Each worker process of a
\* DataLoader holds its own copy of the dataset object, the generator included.
PeakGeneratorCall ==
  /\ gen_pc = "idle"
  /\ LET X == extract_peaks(peaks, src_kind, signals, controls, chroms,
                            in_window, out_window, max_jitter)
     IN IF X.exc # "none"
        THEN /\ gen_pc' = "raised"
             /\ UNCHANGED <<dataset, workers, fetched>>
        ELSE /\ dataset' = [sequences |-> X.val.seqs, signals |-> X.val.signals,
                            controls |-> X.val.controls,
                            has_controls |-> X.has_controls]
             /\ workers' = [w \in WorkerIds(num_workers) |-> RandomState(gen_seed)]
             /\ fetched' = [w \in WorkerIds(num_workers) |-> <<>>]
             /\ gen_pc' = "serving"
  /\ UNCHANGED <<reverse_complement, num_workers, gen_seed>>
  /\ UNCHANGED <<mt, shVars, encVars, ioVars, attrVars>>

\* M[:, a:b]
SliceCols(M, a, b) ==
  LET ps == PySlice(M.shape[2], a, b) IN
  [shape |-> <<M.shape[1], ALen(ps)>>,
   v |-> [p \in (0..M.shape[1]-1) \X (0..ALen(ps)-1) |-> M.v[<<p[1], ps[p[2]]>>]]]

\* M[::-1][:, ::-1]
ReverseBoth(M) ==
  [shape |-> M.shape,
   v |-> [p \in DOMAIN M.v |-> M.v[<<M.shape[1] - 1 - p[1], M.shape[2] - 1 - p[2]>>]]]

\* Lines 145-146, 154: the bounds of the draws one __getitem__ makes, in order:
\* choice(len(sequences)), randint(max_jitter*2) and, with reverse_complement,
\* choice(2).  choice(0) and randint(0) raise ValueError, and end the draws.
ItemBounds(n, mj, rc) ==
  IF n <= 0 THEN <<>>
  ELSE IF mj * 2 <= 0 THEN <<n - 1>>
  ELSE <<n - 1, mj * 2 - 1>> \o (IF rc THEN <<1>> ELSE <<>>)

\* Lines 145-168: __getitem__, its draws being d.
GetItemResult(ds, inw, outw, mj, rc, d) ==
  LET n == Len(ds.sequences) IN
  IF n <= 0 \/ mj * 2 <= 0
  THEN [exc |-> "ValueError", i |-> 0, j |-> 0, X |-> <<>>, X_ctl |-> <<>>, y |-> <<>>]
  ELSE LET ii == d[1]
           jj == d[2]
           flip == rc /\ d[3] = 1
           X == SliceCols(ds.sequences[ii + 1], jj, jj + inw)
           y == SliceCols(ds.signals[ii + 1], jj, jj + outw)
           X_ctl == IF ds.has_controls
                    THEN SliceCols(ds.controls[ii + 1], jj, jj + inw) ELSE <<>>
       IN [exc |-> "none", i |-> ii, j |-> jj,
           X |-> IF flip THEN ReverseBoth(X) ELSE X,
           X_ctl |-> IF ds.has_controls /\ flip THEN ReverseBoth(X_ctl) ELSE X_ctl,
           y |-> IF flip THEN ReverseBoth(y) ELSE y]

\* Every process draws from one generator, shared.
SharedGenerator(w) == CHOOSE g \in DOMAIN workers : \A h \in DOMAIN workers : g <= h

\* The generator the process w draws from: the one of its own copy of the dataset.
GeneratorOf(w) == w

TotalFetched == LET RECURSIVE Sum(_)
                    Sum(S) == IF S = {} THEN 0
                              ELSE LET w == CHOOSE x \in S : TRUE
                                   IN Len(fetched[w]) + Sum(S \ {w})
                IN Sum(DOMAIN fetched)

\* DataGenerator.__getitem__(idx), called in the process w.  idx is not read.
GetItem(w) ==
  /\ gen_pc = "serving"
  /\ TotalFetched < MaxGets
  /\ LET g == GeneratorOf(w)
         bs == ItemBounds(Len(dataset.sequences), max_jitter, reverse_complement)
     IN \E d \in GeneratorDraws(mt, workers[g], bs) :
          /\ mt' = Remember(mt, workers[g], bs, d)
          /\ workers' = [workers EXCEPT ![g].pos = @ + Len(bs)]
          /\ fetched' = [fetched EXCEPT ![w] =
                Append(@, GetItemResult(dataset, in_window, out_window,
                                        max_jitter, reverse_complement, d))]
  /\ UNCHANGED <<reverse_complement, num_workers, gen_seed, dataset, gen_pc>>
  /\ UNCHANGED <<shVars, encVars, ioVars, attrVars>>

\* ---- inputs
GenPeak(k) == Peak("chr1", 1000, 1000 + 3 * (k - 1))

GenInit ==
  /\ peaks \in {[k \in 1..n |-> GenPeak(k)] : n \in 0..MaxPeaks}
  /\ chroms = None
  /\ in_window = MaxWindow
  /\ out_window = MaxWindow - 2
  /\ max_jitter \in 0..MaxJitter
  /\ src_kind = "dict"
  /\ signals = <<"sig0", "sig1">>
  /\ controls \in {None, <<"ctl0">>}
  /\ extracted = NotCalled
  /\ reverse_complement \in BOOLEAN
  /\ num_workers \in 0..MaxWorkers
  /\ gen_seed = 0
  /\ dataset = NoDataset
  /\ workers = <<>>
  /\ fetched = <<>>
  /\ gen_pc = "idle"

\* ------------------------------------------------------------- extract_peaks properties
Called == extracted # NotCalled

\* The peaks the chromosome filter retains, in the order of the list given.
KeptIndices ==
  {k \in 1..Len(peaks) :
      chroms = None \/ \E m \in 1..Len(chroms) : chroms[m] = peaks[k].chrom}

Retained ==
  [r \in 1..Cardinality(KeptIndices) |->
     peaks[CHOOSE k \in KeptIndices : Cardinality({q \in KeptIndices : q < k}) = r - 1]]

\* The character of the genome text under column c of the sequence window of
\* the retained peak r.
TextUnder(r, c) ==
  GenomeChar(Retained[r].chrom, InputWindow(Retained[r], in_window, max_jitter)[1] + c)

InputWidth(r) ==
  InputWindow(Retained[r], in_window, max_jitter)[2]
    - InputWindow(Retained[r], in_window, max_jitter)[1]

\* The row of the 4-letter alphabet a character is encoded in, whatever its case;
\* 4 for every other character.
NucleotideRow(ch) ==
  CASE ch \in {"A", "a"} -> 0 [] ch \in {"C", "c"} -> 1 [] ch \in {"G", "g"} -> 2
    [] ch \in {"T", "t"} -> 3 [] OTHER -> 4

ColumnIsZero(M, c) == \A q \in 0..M.shape[1]-1 : M.v[<<q, c>>] = 0

ColumnIsOneHot(M, c, row) ==
  \A q \in 0..M.shape[1]-1 : M.v[<<q, c>>] = (IF q = row THEN 1 ELSE 0)

\* C5 as claimed: reading raw genome text, every position whose upper-cased
\* symbol is outside {A, C, G, T} is encoded as an all-zero column and the
\* extraction raises no error.
C5_OutsideAlphabetIsIgnored ==
  (Called /\ src_kind = "file") =>
     /\ extracted.exc = "none"
     /\ \A r \in 1..Len(Retained) : \A c \in 0..InputWidth(r)-1 :
          NucleotideRow(TextUnder(r, c)) = 4 => ColumnIsZero(extracted.val.seqs[r], c)

\* Some window of a retained peak holds a character that is neither a
\* nucleotide nor N, in either case.
SomeUnknownSymbol ==
  \E r \in 1..Len(Retained) : \E c \in 0..InputWidth(r)-1 :
     NucleotideRow(TextUnder(r, c)) = 4 /\ TextUnder(r, c) \notin {"N", "n"}

\* C5 as amended: reading raw genome text, every position whose upper-cased
\* symbol is N is encoded as an all-zero column and every A, C, G, T as the
\* one-hot column of its row; a window holding any other symbol makes the
\* extraction raise KeyError.
C5_OnlyNIsIgnored ==
  (Called /\ src_kind = "file") =>
     IF SomeUnknownSymbol THEN extracted.exc = "KeyError"
     ELSE /\ extracted.exc = "none"
          /\ Len(extracted.val.seqs) = Len(Retained)
          /\ \A r \in 1..Len(Retained) : \A c \in 0..InputWidth(r)-1 :
               IF TextUnder(r, c) \in {"N", "n"}
               THEN ColumnIsZero(extracted.val.seqs[r], c)
               ELSE ColumnIsOneHot(extracted.val.seqs[r], c, NucleotideRow(TextUnder(r, c)))

\* An extraction from genome text returned, with a soft-masked n encoded as an
\* all-zero column and a soft-masked nucleotide as a one-hot column.
C5_Witness ==
  /\ Called /\ src_kind = "file" /\ extracted.exc = "none"
  /\ \E r \in 1..Len(Retained) :
       /\ \E c \in 0..InputWidth(r)-1 :
            TextUnder(r, c) = "n" /\ ColumnIsZero(extracted.val.seqs[r], c)
       /\ \E c \in 0..InputWidth(r)-1 :
            TextUnder(r, c) = "c" /\ ColumnIsOneHot(extracted.val.seqs[r], c, 1)

\* C6: for every in_window, out_window >= 1 and max_jitter >= 0 and every
\* retained peak, the sequence window is exactly in_window + 2*max_jitter wide,
\* and every signal and every control window exactly out_window + 2*max_jitter.
C6_WindowWidths ==
  (Called /\ extracted.exc = "none") =>
     \A r \in 1..Len(extracted.val.seqs) :
        /\ extracted.val.seqs[r].shape[2] = in_window + 2 * max_jitter
        /\ extracted.val.signals[r].shape[2] = out_window + 2 * max_jitter
        /\ extracted.has_controls =>
             extracted.val.controls[r].shape[2] = out_window + 2 * max_jitter

\* The scenario of C7: the peak (chr1, 1000, 1000) is the retained peak r, with
\* in_window=4, out_window=2 and max_jitter=1.
Scenario(r) ==
  /\ Called /\ extracted.exc = "none"
  /\ in_window = 4 /\ out_window = 2 /\ max_jitter = 1
  /\ r \in 1..Len(Retained)
  /\ Retained[r] = Peak("chr1", 1000, 1000)

\* C7 as claimed: in the scenario the midpoint is 1000, the signal is read from
\* [999, 1003) and the sequence from [998, 1004).
C7_ScenarioAsClaimed ==
  \A r \in 1..Len(peaks) :
     Scenario(r) =>
        /\ extracted.val.reads[r].mid = 1000
        /\ extracted.val.reads[r].signal = <<999, 1003>>
        /\ extracted.val.reads[r].input = <<998, 1004>>

\* C7 as amended: in the scenario the midpoint is 1000, the signal is read from
\* [998, 1002) (width 4: the first signal track's row holds the values of those
\* positions) and the sequence from [997, 1003) (width 6).
C7_ScenarioWindows ==
  \A r \in 1..Len(peaks) :
     Scenario(r) =>
        /\ extracted.val.reads[r].mid = 1000
        /\ extracted.val.reads[r].signal = <<998, 1002>>
        /\ extracted.val.signals[r].shape[2] = 4
        /\ \A t \in 0..3 :
             extracted.val.signals[r].v[<<0, t>>] \in
                {TrackAt("dict", signals[1], "chr1", 998 + t), 0}
        /\ extracted.val.reads[r].input = <<997, 1003>>
        /\ extracted.val.seqs[r].shape[2] = 6

C7_Witness == \E r \in 1..Len(peaks) : Scenario(r) /\ src_kind = "dict"

\* C8: the tensors returned have one row per retained peak, and row r of each is
\* the window of the r-th retained peak in the order of the list given.
C8_RowsFollowRetainedPeaks ==
  (Called /\ extracted.exc = "none") =>
     /\ Len(extracted.val.seqs) = Len(Retained)
     /\ Len(extracted.val.signals) = Len(Retained)
     /\ extracted.has_controls = (controls # None)
     /\ extracted.has_controls => Len(extracted.val.controls) = Len(Retained)
     /\ \A r \in 1..Len(Retained) :
          /\ extracted.val.seqs[r] =
               ReadSequence(src_kind, Retained[r].chrom,
                            InputWindow(Retained[r], in_window, max_jitter)).val
          /\ extracted.val.signals[r] =
               ReadTracks(src_kind, signals, Retained[r].chrom,
                          SignalWindow(Retained[r], out_window, max_jitter))
          /\ extracted.has_controls =>
               extracted.val.controls[r] =
                  ReadTracks(src_kind, controls, Retained[r].chrom,
                             InputWindow(Retained[r], in_window, max_jitter))

\* A filtered extraction with controls returned: the first peak given was
\* dropped and the second kept, or two different peaks were both kept.
C8_Witness ==
  /\ Called /\ extracted.exc = "none"
  /\ chroms # None /\ controls # None
  /\ Len(peaks) = 2 /\ peaks[1] # peaks[2]
  /\ \/ Len(Retained) = 2
     \/ Len(Retained) = 1 /\ Retained[1] = peaks[2]

ItemOfStream(k) ==
  LET bs == ItemBounds(Len(dataset.sequences), max_jitter, reverse_complement)
      rs == [seed |-> gen_seed, pos |-> (k - 1) * Len(bs)]
  IN GetItemResult(dataset, in_window, out_window, max_jitter, reverse_complement,
                   [q \in 1..Len(bs) |-> mt[DrawKey(rs, q, bs[q])]])

\* What a worker has fetched depends on how many items it fetched, not on what
\* the other workers did in between.
OwnStreamOnly ==
  gen_pc = "serving" =>
     \A w \in DOMAIN fetched : \A k \in 1..Len(fetched[w]) :
        fetched[w][k] = ItemOfStream(k)

\* An access leaves the tensors alone, and the generator of every worker that
\* did not make it.
AccessFrame ==
  gen_pc = "serving" =>
     /\ dataset' = dataset
     /\ \A w \in DOMAIN workers : fetched'[w] = fetched[w] => workers'[w] = workers[w]

\* C10: under any interleaving of the workers' __getitem__ calls no access
\* modifies the shared tensors, no worker reads or advances another worker's
\* generator, and what a worker obtains does not depend on the interleaving.
C10_WorkersDoNotInterfere == []OwnStreamOnly /\ [][AccessFrame]_vars

\* Two workers have both fetched an item.
C10_Witness ==
  /\ gen_pc = "serving"
  /\ \E w \in DOMAIN fetched : \E u \in DOMAIN fetched :
       /\ w # u
       /\ Len(fetched[w]) >= 1 /\ Len(fetched[u]) >= 1
       /\ fetched[w][1].exc = "none"

\* ------------------------------------------------------------- calculate_attributions
\* bs written n times over
RECURSIVE Repeat(_, _)
Repeat(bs, n) == IF n <= 0 THEN <<>> ELSE bs \o Repeat(bs, n - 1)

\* dinucleotide_shuffle, lines 108-123 from trial t on: the successor lists nx
\* are carried from trial to trial, the first q draws of d are used.
RECURSIVE TrialsFrom(_, _, _, _, _, _, _, _)
TrialsFrom(nx, ch, ix, out, t, n, d, q) ==
  IF t >= n THEN [exc |-> "none", val |-> out, used |-> q]
  ELSE LET p == PermuteFrom(nx, ch, 0, d, q)
           used == q + Len(PermuteBounds(nx, ch, 0))
           tr == Traverse(p.next_idxs, ch, ix, out[t])
       IN IF p.exc # "none" THEN [exc |-> p.exc, val |-> <<>>, used |-> used]
          ELSE IF tr.exc # "none" THEN [exc |-> tr.exc, val |-> <<>>, used |-> used]
          ELSE TrialsFrom(p.next_idxs, ch, ix, [out EXCEPT ![t] = tr.out],
                          t + 1, n, d, used)

\* The bounds of the draws a whole call of dinucleotide_shuffle can make.
ShuffleBounds(sq, n) ==
  LET am == Argmax0(sq)
      ch == UniqueChars(am)
  IN Repeat(PermuteBounds(BuildNextIdxs(ch, UniqueInverse(am)), ch, 0), n)

\* dinucleotide_shuffle(sq, n_shuffles=n, random_state=seed) as one function,
\* the draws of its generator being d: what it returns or raises, and how many
\* draws it made.
dinucleotide_shuffle(sq, n, d) ==
  LET am == Argmax0(sq)
      ch == UniqueChars(am)
      ix == UniqueInverse(am)
  IN TrialsFrom(BuildNextIdxs(ch, ix), ch, ix,
                [t \in 0..n-1 |-> Zeros2(sq.shape[1], sq.shape[2])], 0, n, d, 0)

\* Lines 168-173 select anything else as ProfileWrapper.
WrapperOrProfile(mo) == IF mo = "count" THEN "CountWrapper" ELSE "ProfileWrapper"

\* Lines 168-173: the wrapper selected for model_output; None where the code
\* raises ValueError.
WrapperFor(mo) ==
  IF mo = "profile" THEN "ProfileWrapper"
  ELSE IF mo = "count" THEN "CountWrapper"
  ELSE "None"

\* An array given as a list of symbols
ArrayOf(t) == [c \in 0..Len(t)-1 |-> t[c + 1]]

\* The examples a batch is made of: one with several shuffles, one with a
\* single symbol, one whose symbols are not the first rows of the alphabet.
ExampleChoices == {OneHot(ArrayOf(<<0, 0, 1, 0, 1>>)),
                   OneHot(ArrayOf(<<0, 0>>)),
                   OneHot(ArrayOf(<<1, 2>>))}

AttrInit ==
  /\ model_output \in {"profile", "count", "logits", "Profile"}
  /\ at_X \in UNION {[1..n -> ExampleChoices] : n \in 0..MaxExamples}
  /\ at_n_shuffles \in 1..MaxShuffles
  /\ at_seed \in Seeds
  /\ wrapper = "None"
  /\ ig = "None"
  /\ ex = 0
  /\ shuffled = 0
  /\ attributions = <<>>
  /\ at_pc = "idle"
  /\ at_result = NotCalled

\* Lines 168-177: select the wrapper or raise, build DeepLiftShap around it.
CalculateAttributions ==
  /\ at_pc = "idle"
  /\ at_result = NotCalled
  /\ IF WrapperFor(model_output) = "None"
     THEN /\ at_result' = [exc |-> "ValueError", val |-> <<>>]
          /\ UNCHANGED <<wrapper, ig, at_pc>>
     ELSE /\ wrapper' = WrapperFor(model_output)
          /\ ig' = "DeepLiftShap"
          /\ at_pc' = "loop"
          /\ UNCHANGED at_result
  /\ ex' = 0
  /\ attributions' = <<>>
  /\ UNCHANGED <<model_output, at_X, at_n_shuffles, at_seed, shuffled>>
  /\ UNCHANGED <<mt, shVars, encVars, ioVars, genVars>>

\* Lines 179-191, one example: shuffle it with a generator built from the seed,
\* attribute it against the shuffles, keep the attribution.  What
\* dinucleotide_shuffle raises leaves the call.
Example ==
  /\ at_pc = "loop"
  /\ ex < Len(at_X)
  /\ LET bs == ShuffleBounds(at_X[ex + 1], at_n_shuffles)
         rs == RandomState(at_seed)
     IN \E d \in GeneratorDraws(mt, rs, bs) :
          LET reference == dinucleotide_shuffle(at_X[ex + 1], at_n_shuffles, d)
          IN /\ mt' = Remember(mt, rs, SubSeq(bs, 1, reference.used),
                               SubSeq(d, 1, reference.used))
             /\ IF reference.exc # "none"
                THEN /\ at_result' = [exc |-> reference.exc, val |-> <<>>]
                     /\ at_pc' = "idle"
                     /\ UNCHANGED <<ex, attributions>>
                ELSE /\ attributions' =
                          Append(attributions,
                                 [input |-> at_X[ex + 1], reference |-> reference.val,
                                  by |-> wrapper])
                     /\ ex' = ex + 1
                     /\ UNCHANGED <<at_pc, at_result>>
  /\ shuffled' = shuffled + 1
  /\ UNCHANGED <<model_output, at_X, at_n_shuffles, at_seed, wrapper, ig>>
  /\ UNCHANGED <<shVars, encVars, ioVars, genVars>>

\* Lines 193-194: torch.cat raises RuntimeError on an empty list.
AttrReturn ==
  /\ at_pc = "loop"
  /\ ex >= Len(at_X)
  /\ at_pc' = "idle"
  /\ at_result' = IF attributions = <<>> THEN [exc |-> "RuntimeError", val |-> <<>>]
                  ELSE [exc |-> "none", val |-> attributions]
  /\ UNCHANGED <<model_output, at_X, at_n_shuffles, at_seed, wrapper, ig, ex,
                 shuffled, attributions>>
  /\ UNCHANGED <<mt, shVars, encVars, ioVars, genVars>>

\* ------------------------------------------------------------- calculate_attributions properties
\* C11: calculate_attributions called with a model_output other than "profile"
\* or "count" raises ValueError before any wrapper or DeepLiftShap is built, any
\* sequence is shuffled, any random number is drawn or any example attributed.
C11_InvalidModelOutputFailsFirst ==
  (model_output \notin {"profile", "count"} /\ at_result # NotCalled) =>
     /\ at_result.exc = "ValueError"
     /\ wrapper = "None" /\ ig = "None"
     /\ shuffled = 0
     /\ mt = <<>>
     /\ ex = 0 /\ attributions = <<>>
     /\ at_pc = "idle"

\* A call with an invalid model_output on a batch of two examples has raised
\* ValueError.
C11_Witness ==
  /\ model_output = "logits"
  /\ Len(at_X) = 2
  /\ at_result.exc = "ValueError"

\* ------------------------------------------------------------- specifications
\* The variables of the parts a specification leaves alone.
ShuffleIdle ==
  /\ sequence = OneHot(<<>>)
  /\ n_shuffles = 1
  /\ seed = 0
  /\ random_state = RandomState(0)
  /\ chars = <<>>
  /\ idxs = <<>>
  /\ next_idxs = <<>>
  /\ shuffled_sequences = <<>>
  /\ counters = <<>>
  /\ i = 0
  /\ pc = "idle"
  /\ returned = <<>>

EncodeIdle ==
  /\ enc_sequence = <<>>
  /\ enc_alphabet = None
  /\ enc_result = NotCalled

ExtractIdle ==
  /\ peaks = <<>>
  /\ chroms = None
  /\ in_window = 1
  /\ out_window = 1
  /\ max_jitter = 0
  /\ src_kind = "dict"
  /\ signals = <<>>
  /\ controls = None
  /\ extracted = NotCalled

GenIdle ==
  /\ reverse_complement = FALSE
  /\ num_workers = 0
  /\ gen_seed = 0
  /\ dataset = NoDataset
  /\ workers = <<>>
  /\ fetched = <<>>
  /\ gen_pc = "idle"

AttrIdle ==
  /\ model_output = "profile"
  /\ at_X = <<>>
  /\ at_n_shuffles = 0
  /\ at_seed = 0
  /\ wrapper = "None"
  /\ ig = "None"
  /\ ex = 0
  /\ shuffled = 0
  /\ attributions = <<>>
  /\ at_pc = "idle"
  /\ at_result = NotCalled

InitShuffle ==
  ShuffleInit /\ mt = <<>> /\ EncodeIdle /\ ExtractIdle /\ GenIdle /\ AttrIdle

InitEncode ==
  EncodeInit /\ mt = <<>> /\ ShuffleIdle /\ ExtractIdle /\ GenIdle /\ AttrIdle

InitExtract ==
  ExtractInit /\ mt = <<>> /\ ShuffleIdle /\ EncodeIdle /\ GenIdle /\ AttrIdle

InitGen == GenInit /\ mt = <<>> /\ ShuffleIdle /\ EncodeIdle /\ AttrIdle

InitAttr ==
  AttrInit /\ mt = <<>> /\ ShuffleIdle /\ EncodeIdle /\ ExtractIdle /\ GenIdle

ShuffleNext == Call \/ Trial \/ Return

GenNext == PeakGeneratorCall \/ (\E w \in DOMAIN workers : GetItem(w))

SpecShuffle == InitShuffle /\ [][ShuffleNext]_vars

SpecEncode == InitEncode /\ [][Encode]_vars

SpecExtract == InitExtract /\ [][ExtractPeaksCall]_vars

SpecGen == InitGen /\ [][GenNext]_vars

AttrNext == CalculateAttributions \/ Example \/ AttrReturn

SpecAttr == InitAttr /\ [][AttrNext]_vars

====
